---- MODULE Spec2Model ----
(***************************************************************************)
(* State-machine model of the configuration manager (config_manager.py)   *)
(* and of the session data lifecycle (local_data_manager.py) of the       *)
(* bmal1-pubmed-search repository.                                        *)
(*                                                                         *)
(* Files on disk are part of the state.  Every I/O step that the code     *)
(* wraps in try/except can fail; its outcome is an input of the action.   *)
(***************************************************************************)
EXTENDS Integers, Sequences, FiniteSets, TLC

VARIABLES
    pubmed_config,      \* ConfigManager.pubmed_config
    search_history,     \* ConfigManager.search_history (newest first)
    config_file,        \* config_dir/settings.json
    history_file,       \* config_dir/search_history.json
    secrets,            \* st.secrets as seen by _load_config
    here_env,           \* .env next to the module
    root_env,           \* .env of the project root
    clock,              \* datetime.now(): number of timestamps handed out
    faults,             \* number of I/O steps that have failed so far
    db_path,            \* st.session_state['db_path'] (0 is None)
    db_initialized,     \* st.session_state['db_initialized']
    db_token,           \* st.session_state['db_token'] (0 is unset)
    fs,                 \* the temporary files: name -> content
    next_tmp,           \* number of temporary names handed out
    temp_path,          \* local temp_path of the last create/upload (0: none)
    written,            \* what the last upload_database wrote to temp_path
    op,                 \* the operation that ran last
    arg,                \* the file the last import_config was called on
    ret,                \* what it returned ("True", "False", "None", "path", "raised")
    ret_path,           \* the path it returned when ret = "path"
    conn,               \* PaperDB.conn is set (the store file existed on _connect)
    papers_table,       \* the rows of the papers table PaperDB reads, in rowid order
    call,               \* the arguments of the last PaperDB / page call
    result,             \* what that call returned or displayed
    peer_history,       \* search_history of a second ConfigManager on config_dir
    export_file         \* the file the last export_config wrote

cmVars  == <<pubmed_config, search_history, config_file, history_file,
             secrets, here_env, root_env, clock, faults>>
ldmVars == <<db_path, db_initialized, db_token, fs, next_tmp, temp_path, written,
             ret_path>>
dbVars  == <<conn, papers_table, call, result>>
peerVars == <<peer_history, export_file>>
vars    == <<cmVars, ldmVars, dbVars, peerVars, op, arg, ret>>

-----------------------------------------------------------------------------
(* Bounds of the model *)

MaxAdds == 2        \* add_search_to_history calls in one behaviour of Spec
MaxFaults == 1      \* I/O steps that fail in one behaviour
MaxFiles == 2       \* temporary files created in one behaviour
MaxTokens == 2      \* db_token values handed out in one behaviour
MaxFill == 105      \* add_search_to_history calls in one behaviour of SpecFill
MaxPapers == 3      \* rows of the papers table a PaperDB is opened on
MaxRows == 45       \* rows of the frame that is paged in SpecPage

(* Program constants *)

HistoryCap == 100   \* self.search_history[:100]

-----------------------------------------------------------------------------
(* Generic helpers *)

Min(a, b) == IF a < b THEN a ELSE b

\* Python's s[:n]
Take(s, n) == SubSeq(s, 1, Min(Len(s), n))

\* Outcome of one open(path, 'w') + json.dump: the open fails (file kept),
\* the dump fails after the open truncated the file, or both succeed.
IOOutcomes == {"ok", "open_failed", "write_failed"}
Failed(outcome) == IF outcome = "ok" THEN 0 ELSE 1

-----------------------------------------------------------------------------
(* PubMedConfig *)

DefaultConfig ==
    [email |-> "", api_key |-> "", max_results |-> 100,
     batch_size |-> 20, sort_by |-> "relevance"]

is_valid(cfg) == cfg.email # "" /\ cfg.api_key # ""

\* A slip in the except branch of _load_config: the fallback config is built
\* without the defaults of the dataclass
ConfigFromFileNoDefaults(f) ==
    IF f.kind = "json" /\ f.has_pubmed /\ f.ok THEN f.pubmed
    ELSE [DefaultConfig EXCEPT !.max_results = 0, !.batch_size = 0, !.sort_by = ""]

\* PubMedConfig.from_dict applied to the 'pubmed' object of settings.json.
\* A settings file is absent, unreadable/unparseable ("corrupt") or JSON;
\* a JSON one may lack the 'pubmed' key, and its 'pubmed' object may hold a
\* key the dataclass rejects (ok = FALSE: the constructor raises TypeError).
ConfigFromFile(f) ==
    IF f.kind = "json" /\ f.has_pubmed /\ f.ok THEN f.pubmed
    ELSE DefaultConfig

\* The Streamlit-secrets step of _load_config.
WithSecrets(cfg, s) ==
    IF (cfg.email = "" \/ cfg.api_key = "") /\ s.available
    THEN [cfg EXCEPT !.email   = IF s.pubmed_email # "" THEN s.pubmed_email ELSE @,
                     !.api_key = IF s.api_key # "" THEN s.api_key ELSE @]
    ELSE cfg

\* One line of a .env file, already stripped: blank, comment, without a
\* colon, or "key: value".
EnvLine(cfg, line) ==
    IF line.kind # "pair" THEN cfg
    ELSE IF line.key = "pubmed_email" THEN [cfg EXCEPT !.email = line.value]
    ELSE IF line.key = "api_key" THEN [cfg EXCEPT !.api_key = line.value]
    ELSE cfg

RECURSIVE EnvLines(_, _)
EnvLines(cfg, lines) ==
    IF lines = <<>> THEN cfg
    ELSE EnvLines(EnvLine(cfg, Head(lines)), Tail(lines))

\* here_env if it exists, else root_env
EnvPath(here, root) == IF here.exists THEN here ELSE root

_load_from_env(cfg, here, root) ==
    LET env_path == EnvPath(here, root)
    IN  IF env_path.exists THEN EnvLines(cfg, env_path.lines) ELSE cfg

_load_config(f, s, here, root) ==
    LET fromFile    == ConfigFromFile(f)
        fromSecrets == WithSecrets(fromFile, s)
    IN  IF fromSecrets.email = "" \/ fromSecrets.api_key = ""
        THEN _load_from_env(fromSecrets, here, root)
        ELSE fromSecrets

\* search_history.json: absent, unparseable ("corrupt") or a JSON array.
_load_search_history(hf) == IF hf.kind = "json" THEN hf.data ELSE <<>>

-----------------------------------------------------------------------------
(* Persisting *)

ConfigJson(cfg) == [kind |-> "json", has_pubmed |-> TRUE, ok |-> TRUE, pubmed |-> cfg]
CorruptConfigFile == [kind |-> "corrupt", has_pubmed |-> FALSE, ok |-> FALSE,
                      pubmed |-> DefaultConfig]
AbsentConfigFile  == [kind |-> "absent", has_pubmed |-> FALSE, ok |-> FALSE,
                      pubmed |-> DefaultConfig]

HistoryJson(h)     == [kind |-> "json", data |-> h]
CorruptHistoryFile == [kind |-> "corrupt", data |-> <<>>]
AbsentHistoryFile  == [kind |-> "absent", data |-> <<>>]

\* The settings file after save_config() with in-memory config cfg.
save_config(old, cfg, outcome) ==
    CASE outcome = "ok"           -> ConfigJson(cfg)
      [] outcome = "open_failed"  -> old
      [] outcome = "write_failed" -> CorruptConfigFile

\* A slip in save_search_history: the list is written without its newest
\* entry
save_search_historyDropsNewest(old, h, outcome) ==
    CASE outcome = "ok"           -> HistoryJson(IF h = <<>> THEN h ELSE Tail(h))
      [] outcome = "open_failed"  -> old
      [] outcome = "write_failed" -> CorruptHistoryFile

\* The history file after save_search_history() with in-memory list h.
save_search_history(old, h, outcome) ==
    CASE outcome = "ok"           -> HistoryJson(h)
      [] outcome = "open_failed"  -> old
      [] outcome = "write_failed" -> CorruptHistoryFile

-----------------------------------------------------------------------------
(* Search history entries *)

DigitChars == <<"0", "1", "2", "3", "4", "5", "6", "7", "8", "9">>

RECURSIVE NatToStr(_)
NatToStr(n) ==
    IF n < 10 THEN DigitChars[n + 1]
    ELSE NatToStr(n \div 10) \o DigitChars[(n % 10) + 1]

\* num/den rounded to the nearest integer, ties to even (what "%.1f" does
\* to the tenths of an exactly representable value)
RoundHalfEven(num, den) ==
    LET q == num \div den
        r == num % den
    IN  IF 2 * r < den THEN q
        ELSE IF 2 * r > den THEN q + 1
        ELSE IF q % 2 = 0 THEN q ELSE q + 1

\* The format ".1f" followed by "%", applied to a value of tenths / 10
OneDecimalPercent(tenths) ==
    NatToStr(tenths \div 10) \o "." \o NatToStr(tenths % 10) \o "%"

\* A slip in the guard: the rate of a search without results is formatted
\* like every other rate
success_rateZeroFormatted(success_count, result_count) ==
    IF result_count > 0
    THEN OneDecimalPercent(RoundHalfEven(success_count * 1000, result_count))
    ELSE OneDecimalPercent(0)

\* f"{success_count/result_count*100:.1f}%" if result_count > 0 else "0%"
success_rate(success_count, result_count) ==
    IF result_count > 0
    THEN OneDecimalPercent(RoundHalfEven(success_count * 1000, result_count))
    ELSE "0%"

\* SearchParams.to_dict()
SearchParamsDict(query) ==
    [query |-> query, name |-> "Custom Search", max_results |-> 100,
     min_date |-> "", max_date |-> "", sort_by |-> "relevance", retmax |-> 100]

history_item(ts, query, result_count, success_count) ==
    [timestamp     |-> ts,
     search_params |-> SearchParamsDict(query),
     result_count  |-> result_count,
     success_count |-> success_count,
     success_rate  |-> success_rate(success_count, result_count)]

\* A slip in the slice bound: one entry too many is kept
InsertNewestKeepsOneMore(h, item) == Take(<<item>> \o h, HistoryCap + 1)

\* insert(0, item) followed by [:100]
InsertNewest(h, item) == Take(<<item>> \o h, HistoryCap)

-----------------------------------------------------------------------------
(* Inputs of the configuration manager *)

NoSecrets == [available |-> FALSE, pubmed_email |-> "", api_key |-> ""]
AbsentEnv == [exists |-> FALSE, lines |-> <<>>]
Pair(k, v) == [kind |-> "pair", key |-> k, value |-> v]

\* An entry of an imported file: written by some earlier run, so older than
\* every timestamp of this run.  Position i of a newest-first list.
ImportedItem(i) == history_item(0 - i, "imported", 1, 1)
ImportedHistory(n) == [i \in 1..n |-> ImportedItem(i)]

ImportedConfig == [DefaultConfig EXCEPT !.email = "imp@x.org", !.api_key = "impkey"]

ImportObject(hasCfg, cfgOk, hasHist, n) ==
    [kind |-> "object", has_config |-> hasCfg, config_ok |-> cfgOk,
     config |-> ImportedConfig, has_history |-> hasHist,
     history |-> ImportedHistory(n)]
ImportOther(kind) ==
    [kind |-> kind, has_config |-> FALSE, config_ok |-> FALSE,
     config |-> DefaultConfig, has_history |-> FALSE, history |-> <<>>]

\* No import_config has run last
NoImport == ImportOther("none")

\* The files import_config is called on: a missing path, an unparseable
\* file, JSON that is no container (a number: the 'in' test raises), a JSON
\* array, and JSON objects with or without each of the two keys, with a
\* 'pubmed_config' object the dataclass rejects, and with histories of 2
\* and of HistoryCap + 1 entries.
ImportFiles ==
    { ImportOther("absent"), ImportOther("corrupt"), ImportOther("scalar"),
      ImportOther("array"),
      ImportObject(TRUE, TRUE, TRUE, 2),
      ImportObject(TRUE, TRUE, FALSE, 0),
      ImportObject(TRUE, FALSE, TRUE, 1),
      ImportObject(FALSE, FALSE, TRUE, HistoryCap + 1) }

\* (result_count, success_count) of the search that is recorded at timestamp
\* ts: (1, 0), (2, 0), ..., (0, 1), (1, 1), (2, 1), ...: every result_count of
\* 0..6 with every success_count up to it
SearchResult(ts) == << ts % 7, (ts \div 7) % ((ts % 7) + 1) >>

\* An optional keyword argument: None, or a value
None == [given |-> FALSE, val |-> ""]
NoneInt == [given |-> FALSE, val |-> 0]
Some(v) == [given |-> TRUE, val |-> v]

UpdateArgs ==
    { [email |-> Some(""), api_key |-> None, max_results |-> NoneInt,
       batch_size |-> NoneInt, sort_by |-> None],
      [email |-> None, api_key |-> None, max_results |-> Some(50),
       batch_size |-> NoneInt, sort_by |-> None] }

-----------------------------------------------------------------------------
(* Operations of ConfigManager *)

\* ConfigManager(config_dir): a manager is constructed on the directory
Construct ==
    /\ pubmed_config' = _load_config(config_file, secrets, here_env, root_env)
    /\ search_history' = _load_search_history(history_file)
    /\ op' = "__init__"
    /\ arg' = NoImport
    /\ ret' = "None"
    /\ UNCHANGED <<config_file, history_file, secrets, here_env, root_env, clock,
                   faults>>
    /\ UNCHANGED <<ldmVars, dbVars, peerVars>>

\* A slip in update_pubmed_config: a field that is not passed is set back
\* to its default
update_fieldsResetsOthers(cfg, a) ==
    [email       |-> IF a.email.given THEN a.email.val ELSE DefaultConfig.email,
     api_key     |-> IF a.api_key.given THEN a.api_key.val ELSE DefaultConfig.api_key,
     max_results |-> IF a.max_results.given THEN a.max_results.val
                     ELSE DefaultConfig.max_results,
     batch_size  |-> IF a.batch_size.given THEN a.batch_size.val
                     ELSE DefaultConfig.batch_size,
     sort_by     |-> IF a.sort_by.given THEN a.sort_by.val ELSE DefaultConfig.sort_by]

\* The in-memory config after the assignments of update_pubmed_config
update_fields(cfg, a) ==
    [email       |-> IF a.email.given THEN a.email.val ELSE cfg.email,
     api_key     |-> IF a.api_key.given THEN a.api_key.val ELSE cfg.api_key,
     max_results |-> IF a.max_results.given THEN a.max_results.val ELSE cfg.max_results,
     batch_size  |-> IF a.batch_size.given THEN a.batch_size.val ELSE cfg.batch_size,
     sort_by     |-> IF a.sort_by.given THEN a.sort_by.val ELSE cfg.sort_by]

update_pubmed_config(a, outcome) ==
    /\ faults + Failed(outcome) <= MaxFaults
    /\ faults' = faults + Failed(outcome)
    /\ pubmed_config' = update_fields(pubmed_config, a)
    /\ config_file' = save_config(config_file, pubmed_config', outcome)
    /\ op' = "update_pubmed_config"
    /\ arg' = NoImport
    /\ ret' = "None"
    /\ UNCHANGED <<search_history, history_file, secrets, here_env, root_env, clock>>
    /\ UNCHANGED <<ldmVars, dbVars, peerVars>>

\* add_search_to_history, called at most maxAdds times in a behaviour
add_search_to_history(query, result_count, success_count, outcome, maxAdds) ==
    /\ clock < maxAdds
    /\ faults + Failed(outcome) <= MaxFaults
    /\ faults' = faults + Failed(outcome)
    /\ clock' = clock + 1
    /\ search_history' =
           InsertNewest(search_history,
                        history_item(clock', query, result_count, success_count))
    /\ history_file' = save_search_history(history_file, search_history', outcome)
    /\ op' = "add_search_to_history"
    /\ arg' = NoImport
    /\ ret' = "None"
    /\ UNCHANGED <<pubmed_config, config_file, secrets, here_env, root_env>>
    /\ UNCHANGED <<ldmVars, dbVars, peerVars>>

\* A slip in clear_search_history: the audit table of the session's store
\* is emptied as well
clear_search_historyClearsStore(outcome) ==
    /\ faults + Failed(outcome) <= MaxFaults
    /\ faults' = faults + Failed(outcome)
    /\ search_history' = <<>>
    /\ history_file' = save_search_history(history_file, search_history', outcome)
    /\ fs' = IF db_path # 0 /\ fs[db_path].exists
             THEN [fs EXCEPT ![db_path].searches = 0]
             ELSE fs
    /\ op' = "clear_search_history"
    /\ arg' = NoImport
    /\ ret' = "None"
    /\ UNCHANGED <<pubmed_config, config_file, secrets, here_env, root_env, clock>>
    /\ UNCHANGED <<db_path, db_initialized, db_token, next_tmp, temp_path, written,
                   ret_path>>
    /\ UNCHANGED <<dbVars, peerVars>>

clear_search_history(outcome) ==
    /\ faults + Failed(outcome) <= MaxFaults
    /\ faults' = faults + Failed(outcome)
    /\ search_history' = <<>>
    /\ history_file' = save_search_history(history_file, search_history', outcome)
    /\ op' = "clear_search_history"
    /\ arg' = NoImport
    /\ ret' = "None"
    /\ UNCHANGED <<pubmed_config, config_file, secrets, here_env, root_env, clock>>
    /\ UNCHANGED <<ldmVars, dbVars, peerVars>>

\* A slip in the order of the try block: the history is taken from the file
\* before from_dict has accepted the file's config
ImportTryHistoryFirst(f, cfg, h) ==
    IF f.kind \in {"absent", "corrupt", "scalar"}
    THEN [raised |-> TRUE, config |-> cfg, history |-> h]
    ELSE IF f.kind = "object" /\ f.has_config /\ ~f.config_ok
    THEN [raised |-> TRUE, config |-> cfg,
          history |-> IF f.has_history THEN f.history ELSE h]
    ELSE [raised  |-> FALSE,
          config  |-> IF f.kind = "object" /\ f.has_config THEN f.config ELSE cfg,
          history |-> IF f.kind = "object" /\ f.has_history THEN f.history ELSE h]

\* A slip in the key test: data['pubmed_config'] is read without the 'in'
\* guard, so a file without the key raises KeyError
ImportTryKeyRequired(f, cfg, h) ==
    IF \/ f.kind \in {"absent", "corrupt", "scalar", "array"}
       \/ f.kind = "object" /\ ~(f.has_config /\ f.config_ok)
    THEN [raised |-> TRUE, config |-> cfg, history |-> h]
    ELSE [raised  |-> FALSE,
          config  |-> f.config,
          history |-> IF f.has_history THEN f.history ELSE h]

\* The try block of import_config up to the two saves, on in-memory state
\* (cfg, h): it raises when the file cannot be opened or parsed, when
\* 'pubmed_config' in data raises, or when from_dict raises; each of these
\* happens before the first assignment.
ImportTry(f, cfg, h) ==
    IF \/ f.kind \in {"absent", "corrupt", "scalar"}
       \/ f.kind = "object" /\ f.has_config /\ ~f.config_ok
    THEN [raised |-> TRUE, config |-> cfg, history |-> h]
    ELSE [raised  |-> FALSE,
          config  |-> IF f.kind = "object" /\ f.has_config THEN f.config ELSE cfg,
          history |-> IF f.kind = "object" /\ f.has_history THEN f.history ELSE h]

import_config(f, cfgOutcome, histOutcome) ==
    LET try == ImportTry(f, pubmed_config, search_history)
    IN  /\ op' = "import_config"
        /\ arg' = f
        /\ pubmed_config' = try.config
        /\ search_history' = try.history
        /\ IF try.raised
           THEN /\ ret' = "False"
                /\ UNCHANGED <<config_file, history_file, faults>>
           ELSE /\ faults + Failed(cfgOutcome) + Failed(histOutcome) <= MaxFaults
                /\ faults' = faults + Failed(cfgOutcome) + Failed(histOutcome)
                /\ config_file' = save_config(config_file, pubmed_config', cfgOutcome)
                /\ history_file' =
                       save_search_history(history_file, search_history', histOutcome)
                /\ ret' = "True"
        /\ UNCHANGED <<secrets, here_env, root_env, clock>>
        /\ UNCHANGED <<ldmVars, dbVars, peerVars>>

\* ConfigManager(config_dir) of a second instance on the same directory:
\* its list is what the history file holds at that moment
peer_init ==
    /\ peer_history' = _load_search_history(history_file)
    /\ op' = "peer.__init__"
    /\ arg' = NoImport
    /\ ret' = "None"
    /\ UNCHANGED <<cmVars, export_file>>
    /\ UNCHANGED <<ldmVars, dbVars>>

\* A slip in add_search_to_history: the list is read back from the file
\* before the new entry is inserted
peer_add_search_to_historyReloads(query, result_count, success_count, outcome, maxAdds) ==
    /\ clock < maxAdds
    /\ faults + Failed(outcome) <= MaxFaults
    /\ faults' = faults + Failed(outcome)
    /\ clock' = clock + 1
    /\ peer_history' =
           InsertNewest(_load_search_history(history_file),
                        history_item(clock', query, result_count, success_count))
    /\ history_file' = save_search_history(history_file, peer_history', outcome)
    /\ op' = "peer.add_search_to_history"
    /\ arg' = NoImport
    /\ ret' = "None"
    /\ UNCHANGED <<pubmed_config, search_history, config_file, secrets, here_env,
                   root_env, export_file>>
    /\ UNCHANGED <<ldmVars, dbVars>>

\* add_search_to_history of the second instance: the entry goes into its own
\* list, and save_search_history overwrites the shared file with that list
peer_add_search_to_history(query, result_count, success_count, outcome, maxAdds) ==
    /\ clock < maxAdds
    /\ faults + Failed(outcome) <= MaxFaults
    /\ faults' = faults + Failed(outcome)
    /\ clock' = clock + 1
    /\ peer_history' =
           InsertNewest(peer_history,
                        history_item(clock', query, result_count, success_count))
    /\ history_file' = save_search_history(history_file, peer_history', outcome)
    /\ op' = "peer.add_search_to_history"
    /\ arg' = NoImport
    /\ ret' = "None"
    /\ UNCHANGED <<pubmed_config, search_history, config_file, secrets, here_env,
                   root_env, export_file>>
    /\ UNCHANGED <<ldmVars, dbVars>>

\* PubMedConfig.to_dict(): asdict, one key per field
to_dict(cfg) == [k \in DOMAIN cfg |-> cfg[k]]

\* PubMedConfig.from_dict(data) when the constructor accepts the keys: the
\* fields named in data, the dataclass default for the others
from_dict(data) ==
    [k \in DOMAIN DefaultConfig |->
        IF k \in DOMAIN data THEN data[k] ELSE DefaultConfig[k]]

\* A slip in export_config: the 'search_history' key is left out of data
ExportedFileWithoutHistory(cfg, h) ==
    [kind |-> "object",
     has_config |-> TRUE,
     config_ok |-> DOMAIN to_dict(cfg) \subseteq DOMAIN DefaultConfig,
     config |-> from_dict(to_dict(cfg)),
     has_history |-> FALSE,
     history |-> <<>>]

\* The file json.dump(data) leaves, as import_config reads it: a JSON object
\* with the keys 'pubmed_config' (the dictionary of to_dict) and
\* 'search_history' (the list)
ExportedFile(cfg, h) ==
    [kind |-> "object",
     has_config |-> TRUE,
     config_ok |-> DOMAIN to_dict(cfg) \subseteq DOMAIN DefaultConfig,
     config |-> from_dict(to_dict(cfg)),
     has_history |-> TRUE,
     history |-> h]

\* export_config(filepath): open(filepath, 'w') or json.dump raising is
\* caught and gives False
export_config(outcome) ==
    /\ outcome \in IOOutcomes
    /\ faults + Failed(outcome) <= MaxFaults
    /\ faults' = faults + Failed(outcome)
    /\ export_file' =
           CASE outcome = "ok"           -> ExportedFile(pubmed_config, search_history)
             [] outcome = "open_failed"  -> export_file
             [] outcome = "write_failed" -> ImportOther("corrupt")
    /\ op' = "export_config"
    /\ arg' = NoImport
    /\ ret' = IF outcome = "ok" THEN "True" ELSE "False"
    /\ UNCHANGED <<pubmed_config, search_history, config_file, history_file,
                   secrets, here_env, root_env, clock, peer_history>>
    /\ UNCHANGED <<ldmVars, dbVars>>

-----------------------------------------------------------------------------
(* The session data lifecycle is idle in the configuration specifications *)

\* The names tempfile.NamedTemporaryFile can hand out, in the order it does
TmpNames == 1..MaxFiles

\* A temporary file: whether it exists, whether sqlite3 can read it as a
\* database, the tables it holds, the rows of papers, the number of rows of
\* search_history, and its size in pages.
NoFile ==
    [exists |-> FALSE, sqlite |-> FALSE, tables |-> {}, papers |-> {},
     searches |-> 0, size |-> 0]

LdmIdle ==
    /\ db_path = 0
    /\ db_initialized = FALSE
    /\ db_token = 0
    /\ fs = [n \in TmpNames |-> NoFile]
    /\ next_tmp = 0
    /\ temp_path = 0
    /\ written = NoFile
    /\ ret_path = 0

\* No PaperDB has been opened
PaperDbIdle ==
    /\ conn = FALSE
    /\ papers_table = <<>>
    /\ call = <<>>
    /\ result = <<>>

\* No second ConfigManager has been constructed and nothing was exported
PeerIdle ==
    /\ peer_history = <<>>
    /\ export_file = NoImport

-----------------------------------------------------------------------------
(* Spec: the configuration manager *)

InitConfigFiles == { AbsentConfigFile, CorruptConfigFile }
InitHistoryFiles == { AbsentHistoryFile, CorruptHistoryFile }

Init ==
    /\ config_file \in InitConfigFiles
    /\ history_file \in InitHistoryFiles
    /\ secrets = NoSecrets
    /\ here_env = AbsentEnv
    /\ root_env = AbsentEnv
    /\ clock = 0
    /\ faults = 0
    /\ pubmed_config = _load_config(config_file, secrets, here_env, root_env)
    /\ search_history = _load_search_history(history_file)
    /\ op = "__init__"
    /\ arg = NoImport
    /\ ret = "None"
    /\ LdmIdle
    /\ PaperDbIdle
    /\ PeerIdle

AddSearch ==
    \E o \in IOOutcomes :
        add_search_to_history("BMAL1", SearchResult(clock + 1)[1],
                              SearchResult(clock + 1)[2], o, MaxAdds)
ClearHistory == \E o \in IOOutcomes : clear_search_history(o)
UpdateConfig == \E a \in UpdateArgs, o \in IOOutcomes : update_pubmed_config(a, o)
ImportConfig == \E f \in ImportFiles, o1, o2 \in IOOutcomes : import_config(f, o1, o2)

Next ==
    \/ Construct
    \/ AddSearch
    \/ ClearHistory
    \/ UpdateConfig
    \/ ImportConfig

Spec == Init /\ [][Next]_vars

-----------------------------------------------------------------------------
(* SpecFill: a fresh manager whose only operation is add_search_to_history *)

\* The entry add_search_to_history makes at timestamp ts
FillItem(ts) == history_item(ts, "BMAL1", SearchResult(ts)[1], SearchResult(ts)[2])

InitFill ==
    /\ config_file = AbsentConfigFile
    /\ history_file = AbsentHistoryFile
    /\ secrets = NoSecrets
    /\ here_env = AbsentEnv
    /\ root_env = AbsentEnv
    /\ clock = 0
    /\ faults = 0
    /\ pubmed_config = _load_config(config_file, secrets, here_env, root_env)
    /\ search_history = _load_search_history(history_file)
    /\ op = "__init__"
    /\ arg = NoImport
    /\ ret = "None"
    /\ LdmIdle
    /\ PaperDbIdle
    /\ PeerIdle

FillSearch ==
    \E o \in IOOutcomes :
        add_search_to_history("BMAL1", SearchResult(clock + 1)[1],
                              SearchResult(clock + 1)[2], o, MaxFill)

SpecFill == InitFill /\ [][FillSearch]_vars

-----------------------------------------------------------------------------
(* SpecLoad: constructing a manager over every combination of sources *)

FileConfig(e, k) == [DefaultConfig EXCEPT !.email = e, !.api_key = k]

LoadConfigFiles ==
    { AbsentConfigFile, CorruptConfigFile,
      [kind |-> "json", has_pubmed |-> FALSE, ok |-> FALSE, pubmed |-> DefaultConfig],
      [kind |-> "json", has_pubmed |-> TRUE, ok |-> FALSE,
       pubmed |-> FileConfig("file@x.org", "filekey")] }
    \cup { ConfigJson(FileConfig(e, k)) : e \in {"", "file@x.org"}, k \in {"", "filekey"} }

LoadSecrets ==
    { NoSecrets }
    \cup { [available |-> TRUE, pubmed_email |-> e, api_key |-> k] :
             e \in {"", "sec@x.org"}, k \in {"", "seckey"} }

EnvFile(lines) == [exists |-> TRUE, lines |-> lines]
Ignored(kind) == [kind |-> kind, key |-> "", value |-> ""]

LoadHereEnvs ==
    { AbsentEnv,
      EnvFile(<<Pair("pubmed_email", "here@x.org")>>),
      EnvFile(<<Ignored("comment"), Pair("api_key", "herekey")>>) }

LoadRootEnvs ==
    { AbsentEnv,
      EnvFile(<<>>),
      EnvFile(<<Pair("pubmed_email", "env@x.org"), Pair("api_key", "envkey")>>),
      EnvFile(<<Pair("pubmed_email", "")>>),
      EnvFile(<<Ignored("blank"), Pair("other", "x"), Pair("api_key", "")>>),
      EnvFile(<<Pair("api_key", "envkey"), Ignored("nocolon"), Pair("api_key", "envkey2")>>) }

LoadHistoryFiles ==
    { AbsentHistoryFile, CorruptHistoryFile, HistoryJson(ImportedHistory(2)) }

\* Before _load_config runs: pubmed_config is None (shown as the default
\* record) and the list is empty.
InitLoad ==
    /\ config_file \in LoadConfigFiles
    /\ history_file \in LoadHistoryFiles
    /\ secrets \in LoadSecrets
    /\ here_env \in LoadHereEnvs
    /\ root_env \in LoadRootEnvs
    /\ clock = 0
    /\ faults = 0
    /\ pubmed_config = DefaultConfig
    /\ search_history = <<>>
    /\ op = "new"
    /\ arg = NoImport
    /\ ret = "None"
    /\ LdmIdle
    /\ PaperDbIdle
    /\ PeerIdle

SpecLoad == InitLoad /\ [][Construct]_vars

-----------------------------------------------------------------------------
(* SpecRound: the configuration manager with export_config, and import_config
   called on the exported file; Construct is a fresh manager on the same
   directory *)

ExportConfig == \E o \in IOOutcomes : export_config(o)
ImportExported ==
    /\ export_file.kind # "none"
    /\ \E o1, o2 \in IOOutcomes : import_config(export_file, o1, o2)

NextRound ==
    \/ Construct
    \/ AddSearch
    \/ ClearHistory
    \/ UpdateConfig
    \/ ExportConfig
    \/ ImportExported

SpecRound == Init /\ [][NextRound]_vars

-----------------------------------------------------------------------------
(* SpecTwo: two ConfigManager instances on one config_dir, one operation at
   a time; the clock is shared, so every entry has its own timestamp *)

\* add_search_to_history calls of the two instances together
MaxShared == 4

WriterAdd ==
    \E o \in IOOutcomes :
        add_search_to_history("BMAL1", SearchResult(clock + 1)[1],
                              SearchResult(clock + 1)[2], o, MaxShared)
PeerAdd ==
    \E o \in IOOutcomes :
        peer_add_search_to_history("CLOCK", SearchResult(clock + 1)[1],
                                   SearchResult(clock + 1)[2], o, MaxShared)

NextTwo ==
    \/ WriterAdd
    \/ PeerAdd
    \/ peer_init

SpecTwo == InitFill /\ [][NextTwo]_vars

-----------------------------------------------------------------------------
(* Properties of the configuration manager *)

cmState == <<pubmed_config, search_history, config_file, history_file>>

\* C1: in every reachable state the in-memory search_history and the
\* persisted history file each hold at most HistoryCap (100) entries.
C1_HistoryAtMostCap ==
    /\ Len(search_history) <= HistoryCap
    /\ history_file.kind = "json" => Len(history_file.data) <= HistoryCap

\* C2: starting from an empty history, after n = clock calls of
\* add_search_to_history the list holds exactly the Min(n, 100) entries added
\* last, newest first; after 105 calls exactly the entries of the first 5
\* calls are absent.
C2_FillNewestFirst ==
    /\ Len(search_history) = Min(clock, HistoryCap)
    /\ \A i \in 1..Len(search_history) : search_history[i] = FillItem(clock - i + 1)
    /\ clock = HistoryCap + 5 =>
           { ts \in 1..clock :
               \A i \in 1..Len(search_history) : search_history[i].timestamp # ts }
           = 1..5

C2_Witness ==
    /\ op = "add_search_to_history"
    /\ clock = HistoryCap + 5
    /\ search_history[1] = FillItem(clock)
    /\ search_history[HistoryCap] = FillItem(6)

\* C3: an import_config that returns False leaves pubmed_config,
\* search_history, the config file and the history file as they were, and an
\* import_config that changes any of them returns True.
C3_FailedImportChangesNothing ==
    [][ op' = "import_config" =>
          /\ ret' = "False" => cmState' = cmState
          /\ cmState' # cmState => ret' = "True" ]_vars

C3_Witness ==
    /\ op = "import_config"
    /\ ret = "False"
    /\ arg.kind = "object"
    /\ arg.has_history
    /\ search_history # <<>>
    /\ search_history # arg.history

C12_SuccessRateRecorded ==
    op = "add_search_to_history" =>
        LET e == search_history[1]
        IN  /\ ret = "None"
            /\ e.result_count = 0 => e.success_rate = "0%"
            /\ e.result_count > 0 =>
                   \E t \in 0..1000 :
                       /\ e.success_rate = OneDecimalPercent(t)
                       /\ 2 * t * e.result_count <= 2000 * e.success_count + e.result_count
                       /\ 2 * t * e.result_count >= 2000 * e.success_count - e.result_count

C12_Witness ==
    /\ op = "add_search_to_history"
    /\ search_history[1].result_count = 0
    /\ search_history[1].success_rate = "0%"
    /\ \E i \in 2..Len(search_history) :
           /\ search_history[i].result_count = 3
           /\ search_history[i].success_count = 2
           /\ search_history[i].success_rate = "66.7%"

C22_SaveConfigIsAtomic ==
    [][ op' \in {"update_pubmed_config", "import_config"} =>
          config_file' \in {config_file, ConfigJson(pubmed_config')} ]_vars

C26_ConstructionSurvivesBadFiles ==
    op = "__init__" =>
        /\ ret = "None"
        /\ config_file.kind = "corrupt" =>
               LET fromSecrets == WithSecrets(DefaultConfig, secrets)
               IN  /\ pubmed_config =
                          IF fromSecrets.email = "" \/ fromSecrets.api_key = ""
                          THEN _load_from_env(fromSecrets, here_env, root_env)
                          ELSE fromSecrets
                   /\ pubmed_config =
                          _load_config(AbsentConfigFile, secrets, here_env, root_env)
                   /\ (~secrets.available /\ ~here_env.exists /\ ~root_env.exists)
                          => pubmed_config = DefaultConfig
                   /\ pubmed_config.max_results = DefaultConfig.max_results
                   /\ pubmed_config.batch_size = DefaultConfig.batch_size
                   /\ pubmed_config.sort_by = DefaultConfig.sort_by
        /\ history_file.kind = "corrupt" => search_history = <<>>

C26_Witness ==
    /\ op = "__init__"
    /\ config_file.kind = "corrupt"
    /\ history_file.kind = "corrupt"
    /\ pubmed_config = FileConfig("env@x.org", "envkey")
    /\ search_history = <<>>

C24_WritersOverwrite ==
    [][ /\ op' = "add_search_to_history" =>
              /\ search_history' =
                     Take(<<search_history'[1]>> \o search_history, HistoryCap)
              /\ search_history'[1].timestamp = clock'
              /\ peer_history' = peer_history
              /\ faults' = faults => history_file' = HistoryJson(search_history')
        /\ op' = "peer.add_search_to_history" =>
              /\ peer_history' =
                     Take(<<peer_history'[1]>> \o peer_history, HistoryCap)
              /\ peer_history'[1].timestamp = clock'
              /\ search_history' = search_history
              /\ faults' = faults => history_file' = HistoryJson(peer_history') ]_vars

\* the lost update: no write has failed, the first writer holds an entry it
\* added and persisted, and after the second writer's add the file lacks it
C24_Witness ==
    /\ op = "peer.add_search_to_history"
    /\ faults = 0
    /\ history_file = HistoryJson(peer_history)
    /\ \E i \in 1..Len(search_history) :
           \A j \in 1..Len(history_file.data) :
               history_file.data[j] # search_history[i]

\* C5: after construction each of email and api_key is the value of the
\* first source, in the order config file, secret store, env file, that gave
\* a non-empty value: a field that is non-empty after the config file, or
\* after the secret store, is not changed by a later source.
C5_FirstNonEmptySourceWins ==
    op = "__init__" =>
        LET fromFile    == ConfigFromFile(config_file)
            fromSecrets == WithSecrets(fromFile, secrets)
        IN  /\ fromFile.email # "" => pubmed_config.email = fromFile.email
            /\ fromFile.api_key # "" => pubmed_config.api_key = fromFile.api_key
            /\ fromSecrets.email # "" => pubmed_config.email = fromSecrets.email
            /\ fromSecrets.api_key # "" => pubmed_config.api_key = fromSecrets.api_key

-----------------------------------------------------------------------------
(* The session's record store: local_data_manager.py *)

Pmids == {"p1", "p2"}
Titles == {"t1", "t2"}
Row(pmid, title) == [pmid |-> pmid, title |-> title]
Rows == { Row(p, t) : p \in Pmids, t \in Titles }

StoreFile(tables, papers, searches, size) ==
    [exists |-> TRUE, sqlite |-> TRUE, tables |-> tables, papers |-> papers,
     searches |-> searches, size |-> size]

\* Bytes that are no SQLite database (also what a write that failed leaves)
GarbageFile ==
    [exists |-> TRUE, sqlite |-> FALSE, tables |-> {}, papers |-> {},
     searches |-> 0, size |-> 1]

\* The zero-length file NamedTemporaryFile creates: an empty database
EmptyFile == StoreFile({}, {}, 0, 0)

\* The contents upload_database is called with
Uploads ==
    { GarbageFile,
      EmptyFile,
      StoreFile({"search_history"}, {}, 1, 3),
      StoreFile({"papers"}, {Row("p1", "t1")}, 0, 3),
      StoreFile({"papers", "search_history"}, {Row("p1", "t2"), Row("p2", "t1")}, 2, 5) }

\* has_database()
HasDatabase == db_path # 0 /\ fs[db_path].exists

\* CREATE TABLE IF NOT EXISTS papers / search_history, CREATE INDEX IF NOT EXISTS
_init_database_schema(f) ==
    [f EXCEPT !.tables = @ \cup {"papers", "search_history"},
              !.size = IF {"papers", "search_history"} \subseteq f.tables
                       THEN @ ELSE @ + 4]

\* _validate_database: sqlite3 raising on bytes that are no database is
\* caught and gives False
_validate_database(f) == f.sqlite /\ "papers" \in f.tables

\* get_database_info(): the dictionary returned.  The except branch returns
\* only 'exists' and 'error' (has_counts = FALSE).
DatabaseInfo(exists, error, hasCounts, papers, searches, size) ==
    [exists |-> exists, error |-> error, has_counts |-> hasCounts,
     paper_count |-> papers, search_count |-> searches, size |-> size]

get_database_info ==
    IF ~HasDatabase
    THEN DatabaseInfo(FALSE, FALSE, TRUE, 0, 0, 0)
    ELSE LET f == fs[db_path]
         IN  IF f.sqlite /\ "papers" \in f.tables /\ "search_history" \in f.tables
             THEN DatabaseInfo(TRUE, FALSE, TRUE, Cardinality(f.papers),
                               f.searches, f.size)
             ELSE DatabaseInfo(FALSE, TRUE, FALSE, 0, 0, 0)

\* A slip in LocalDataManager(): the two keys are set without the
\* "not in st.session_state" tests
NewDataManagerResets ==
    /\ op' = "LocalDataManager"
    /\ ret' = "None"
    /\ db_path' = 0
    /\ db_initialized' = FALSE
    /\ UNCHANGED <<db_token, fs, next_tmp, temp_path, written, ret_path, faults, arg>>
    /\ UNCHANGED <<dbVars, peerVars, pubmed_config, search_history, config_file, history_file,
                   secrets, here_env, root_env, clock>>

\* LocalDataManager(): the keys are already in st.session_state
NewDataManager ==
    /\ op' = "LocalDataManager"
    /\ ret' = "None"
    /\ UNCHANGED <<db_path, db_initialized, db_token, fs, next_tmp, temp_path,
                   written, ret_path, faults, arg>>
    /\ UNCHANGED <<dbVars, peerVars, pubmed_config, search_history, config_file, history_file,
                   secrets, here_env, root_env, clock>>

\* A slip in create_temp_database: the session keys are assigned before
\* _init_database_schema is called
CreateBodyBindsFirst(outcome) ==
    /\ outcome \in {"ok", "create_failed", "schema_failed"}
    /\ faults + Failed(outcome) <= MaxFaults
    /\ faults' = faults + Failed(outcome)
    /\ IF outcome = "create_failed"
       THEN /\ ret' = "raised"
            /\ ret_path' = 0
            /\ temp_path' = 0
            /\ UNCHANGED <<db_path, db_initialized, fs, next_tmp>>
       ELSE /\ next_tmp < MaxFiles
            /\ next_tmp' = next_tmp + 1
            /\ temp_path' = next_tmp'
            /\ db_path' = temp_path'
            /\ db_initialized' = TRUE
            /\ IF outcome = "schema_failed"
               THEN /\ fs' = [fs EXCEPT ![temp_path'] = EmptyFile]
                    /\ ret' = "raised"
                    /\ ret_path' = 0
               ELSE /\ fs' = [fs EXCEPT ![temp_path'] = _init_database_schema(EmptyFile)]
                    /\ ret' = "path"
                    /\ ret_path' = temp_path'
    /\ UNCHANGED <<db_token, written, arg>>
    /\ UNCHANGED <<dbVars, peerVars, pubmed_config, search_history, config_file, history_file,
                   secrets, here_env, root_env, clock>>

\* The body of create_temp_database.  NamedTemporaryFile may raise (no file
\* is made) and _init_database_schema may raise (the file stays): both
\* propagate to the caller.
CreateBody(outcome) ==
    /\ outcome \in {"ok", "create_failed", "schema_failed"}
    /\ faults + Failed(outcome) <= MaxFaults
    /\ faults' = faults + Failed(outcome)
    /\ IF outcome = "create_failed"
       THEN /\ ret' = "raised"
            /\ ret_path' = 0
            /\ temp_path' = 0
            /\ UNCHANGED <<db_path, db_initialized, fs, next_tmp>>
       ELSE /\ next_tmp < MaxFiles
            /\ next_tmp' = next_tmp + 1
            /\ temp_path' = next_tmp'
            /\ IF outcome = "schema_failed"
               THEN /\ fs' = [fs EXCEPT ![temp_path'] = EmptyFile]
                    /\ ret' = "raised"
                    /\ ret_path' = 0
                    /\ UNCHANGED <<db_path, db_initialized>>
               ELSE /\ fs' = [fs EXCEPT ![temp_path'] = _init_database_schema(EmptyFile)]
                    /\ db_path' = temp_path'
                    /\ db_initialized' = TRUE
                    /\ ret' = "path"
                    /\ ret_path' = temp_path'
    /\ UNCHANGED <<db_token, written, arg>>
    /\ UNCHANGED <<dbVars, peerVars, pubmed_config, search_history, config_file, history_file,
                   secrets, here_env, root_env, clock>>

create_temp_database(outcome) ==
    /\ op' = "create_temp_database"
    /\ CreateBody(outcome)

\* A slip in upload_database: the store bound before is unlinked when the
\* new one is bound
upload_databaseUnlinksPrevious(u, outcome) ==
    /\ outcome \in {"ok", "create_failed", "write_failed", "unlink_failed"}
    /\ outcome = "unlink_failed" => ~_validate_database(u)
    /\ faults + Failed(outcome) <= MaxFaults
    /\ faults' = faults + Failed(outcome)
    /\ op' = "upload_database"
    /\ ret_path' = 0
    /\ IF outcome = "create_failed"
       THEN /\ ret' = "False"
            /\ temp_path' = 0
            /\ written' = NoFile
            /\ UNCHANGED <<db_path, db_initialized, db_token, fs, next_tmp>>
       ELSE /\ next_tmp < MaxFiles
            /\ next_tmp' = next_tmp + 1
            /\ temp_path' = next_tmp'
            /\ IF outcome = "write_failed"
               THEN /\ written' = GarbageFile
                    /\ fs' = [fs EXCEPT ![temp_path'] = written']
                    /\ ret' = "False"
                    /\ UNCHANGED <<db_path, db_initialized, db_token>>
               ELSE IF _validate_database(u)
               THEN /\ db_token < MaxTokens
                    /\ written' = u
                    /\ fs' = [n \in DOMAIN fs |->
                                 IF n = temp_path' THEN u
                                 ELSE IF n = db_path THEN NoFile
                                 ELSE fs[n]]
                    /\ db_path' = temp_path'
                    /\ db_initialized' = TRUE
                    /\ db_token' = db_token + 1
                    /\ ret' = "True"
               ELSE /\ written' = u
                    /\ fs' = [fs EXCEPT ![temp_path'] =
                                 IF outcome = "unlink_failed" THEN u ELSE NoFile]
                    /\ ret' = "False"
                    /\ UNCHANGED <<db_path, db_initialized, db_token>>
    /\ UNCHANGED arg
    /\ UNCHANGED <<dbVars, peerVars, pubmed_config, search_history, config_file, history_file,
                   secrets, here_env, root_env, clock>>

\* upload_database(uploaded_file), with u what uploaded_file.getvalue() holds.
\* Every exception is caught: NamedTemporaryFile raising (no file is made),
\* the write raising (the file stays, with part of the bytes), and unlink()
\* raising after a failed validation (the file stays).
upload_database(u, outcome) ==
    /\ outcome \in {"ok", "create_failed", "write_failed", "unlink_failed"}
    /\ outcome = "unlink_failed" => ~_validate_database(u)
    /\ faults + Failed(outcome) <= MaxFaults
    /\ faults' = faults + Failed(outcome)
    /\ op' = "upload_database"
    /\ ret_path' = 0
    /\ IF outcome = "create_failed"
       THEN /\ ret' = "False"
            /\ temp_path' = 0
            /\ written' = NoFile
            /\ UNCHANGED <<db_path, db_initialized, db_token, fs, next_tmp>>
       ELSE /\ next_tmp < MaxFiles
            /\ next_tmp' = next_tmp + 1
            /\ temp_path' = next_tmp'
            /\ IF outcome = "write_failed"
               THEN /\ written' = GarbageFile
                    /\ fs' = [fs EXCEPT ![temp_path'] = written']
                    /\ ret' = "False"
                    /\ UNCHANGED <<db_path, db_initialized, db_token>>
               ELSE IF _validate_database(u)
               THEN /\ db_token < MaxTokens
                    /\ written' = u
                    /\ fs' = [fs EXCEPT ![temp_path'] = u]
                    /\ db_path' = temp_path'
                    /\ db_initialized' = TRUE
                    /\ db_token' = db_token + 1
                    /\ ret' = "True"
               ELSE /\ written' = u
                    /\ fs' = [fs EXCEPT ![temp_path'] =
                                 IF outcome = "unlink_failed" THEN u ELSE NoFile]
                    /\ ret' = "False"
                    /\ UNCHANGED <<db_path, db_initialized, db_token>>
    /\ UNCHANGED arg
    /\ UNCHANGED <<dbVars, peerVars, pubmed_config, search_history, config_file, history_file,
                   secrets, here_env, root_env, clock>>

\* A slip in clear_database: the handle is unbound but the file is not unlinked
clear_databaseKeepsFile(outcome) ==
    /\ outcome = "ok"
    /\ db_token < MaxTokens
    /\ db_path' = 0
    /\ db_initialized' = FALSE
    /\ db_token' = db_token + 1
    /\ op' = "clear_database"
    /\ ret' = "None"
    /\ UNCHANGED <<fs, next_tmp, temp_path, written, ret_path, arg, faults>>
    /\ UNCHANGED <<dbVars, peerVars, pubmed_config, search_history, config_file, history_file,
                   secrets, here_env, root_env, clock>>

\* clear_database(): an exception of unlink() is swallowed
clear_database(outcome) ==
    /\ outcome \in {"ok", "unlink_failed"}
    /\ outcome = "unlink_failed" => HasDatabase
    /\ faults + Failed(outcome) <= MaxFaults
    /\ faults' = faults + Failed(outcome)
    /\ db_token < MaxTokens
    /\ fs' = IF HasDatabase /\ outcome = "ok"
             THEN [fs EXCEPT ![db_path] = NoFile]
             ELSE fs
    /\ db_path' = 0
    /\ db_initialized' = FALSE
    /\ db_token' = db_token + 1
    /\ op' = "clear_database"
    /\ ret' = "None"
    /\ UNCHANGED <<next_tmp, temp_path, written, ret_path, arg>>
    /\ UNCHANGED <<dbVars, peerVars, pubmed_config, search_history, config_file, history_file,
                   secrets, here_env, root_env, clock>>

\* A slip in ensure_database: the has_database() test is dropped
ensure_databaseAlwaysCreates(outcome) ==
    /\ op' = "ensure_database"
    /\ CreateBody(outcome)

ensure_database(outcome) ==
    /\ op' = "ensure_database"
    /\ IF ~HasDatabase
       THEN CreateBody(outcome)
       ELSE /\ outcome = "ok"
            /\ ret' = "path"
            /\ ret_path' = db_path
            /\ UNCHANGED <<db_path, db_initialized, db_token, fs, next_tmp,
                           temp_path, written, faults, arg>>
            /\ UNCHANGED <<dbVars, peerVars, pubmed_config, search_history, config_file,
                           history_file, secrets, here_env, root_env, clock>>

\* A slip in the schema: papers is created without PRIMARY KEY on pmid, so
\* only a row equal in every column conflicts
PapersNoPrimaryKey(row) == row

\* The key of papers: pmid TEXT PRIMARY KEY
PapersPrimaryKey(row) == row.pmid

\* INSERT OR REPLACE INTO papers: the rows that conflict with the new row on
\* the primary key are deleted, then the row is inserted
InsertOrReplace(papers, row) ==
    { r \in papers : PapersPrimaryKey(r) # PapersPrimaryKey(row) } \cup { row }

\* A record is ingested into the session's store
insert_or_replace(row) ==
    /\ HasDatabase
    /\ fs[db_path].sqlite
    /\ "papers" \in fs[db_path].tables
    /\ fs' = [fs EXCEPT ![db_path].papers = InsertOrReplace(@, row)]
    /\ op' = "insert_or_replace"
    /\ ret' = IF \E r \in fs[db_path].papers : r.pmid = row.pmid
              THEN "replaced" ELSE "inserted"
    /\ UNCHANGED <<db_path, db_initialized, db_token, next_tmp, temp_path,
                   written, ret_path, faults, arg>>
    /\ UNCHANGED <<dbVars, peerVars, pubmed_config, search_history, config_file, history_file,
                   secrets, here_env, root_env, clock>>

-----------------------------------------------------------------------------
(* SpecData: one session of the data manager *)

InitData == InitFill

CreateDatabase == \E o \in {"ok", "create_failed", "schema_failed"} : create_temp_database(o)
UploadDatabase ==
    \E u \in Uploads, o \in {"ok", "create_failed", "write_failed", "unlink_failed"} :
        upload_database(u, o)
ClearDatabase == \E o \in {"ok", "unlink_failed"} : clear_database(o)
EnsureDatabase == \E o \in {"ok", "create_failed", "schema_failed"} : ensure_database(o)
InsertPaper == \E row \in Rows : insert_or_replace(row)

NextData ==
    \/ NewDataManager
    \/ CreateDatabase
    \/ UploadDatabase
    \/ ClearDatabase
    \/ EnsureDatabase
    \/ InsertPaper

SpecData == InitData /\ [][NextData]_vars

-----------------------------------------------------------------------------
(* SpecSession: one page session, in which the configuration manager keeps
   its history and the data manager handles the session's store *)

NextSession ==
    \/ add_search_to_history("BMAL1", SearchResult(clock + 1)[1],
                             SearchResult(clock + 1)[2], "ok", MaxAdds)
    \/ clear_search_history("ok")
    \/ \E f \in { ImportObject(TRUE, TRUE, TRUE, 2), ImportOther("corrupt") } :
           import_config(f, "ok", "ok")
    \/ NewDataManager
    \/ create_temp_database("ok")
    \/ \E u \in { GarbageFile,
                  StoreFile({"papers", "search_history"},
                            {Row("p1", "t2"), Row("p2", "t1")}, 2, 5) } :
           upload_database(u, "ok")
    \/ \E o \in {"ok", "unlink_failed"} : clear_database(o)
    \/ ensure_database("ok")

SpecSession == InitFill /\ [][NextSession]_vars

-----------------------------------------------------------------------------
(* Properties of the session data lifecycle *)

sessionState == <<db_path, db_initialized>>

\* C6: upload_database returns True iff the candidate store contains a
\* papers table; whenever it returns False, db_path, db_initialized and
\* has_database() are as before the call and the candidate file does not
\* exist.
C6_FailedUploadDiscardsCandidate ==
    [][ op' = "upload_database" =>
          /\ ret' = "True" <=> (written'.sqlite /\ "papers" \in written'.tables)
          /\ ret' = "False" =>
                /\ sessionState' = sessionState
                /\ HasDatabase' = HasDatabase
                /\ \A n \in TmpNames : ~fs[n].exists => ~fs'[n].exists ]_vars

\* C7: whenever has_database() is true, get_database_info() reports
\* exists = true with the paper count, search count and size of the active
\* store; whenever it is false, it reports exists = false and zero counts.
C7_InfoMatchesHasDatabase ==
    IF HasDatabase
    THEN get_database_info =
             DatabaseInfo(TRUE, FALSE, TRUE, Cardinality(fs[db_path].papers),
                          fs[db_path].searches, fs[db_path].size)
    ELSE get_database_info = DatabaseInfo(FALSE, FALSE, TRUE, 0, 0, 0)

\* C8: an ensure_database that returns: when has_database() was true it
\* returns the bound path and changes neither the session state nor any file;
\* otherwise it creates a new store, with both tables, and binds it.  In both
\* cases has_database() is true afterwards and the path returned is db_path.
C8_EnsureReturnsBoundStore ==
    [][ (op' = "ensure_database" /\ ret' = "path") =>
          /\ HasDatabase =>
                /\ ret_path' = db_path
                /\ UNCHANGED <<db_path, db_initialized, db_token, fs, next_tmp>>
          /\ ~HasDatabase =>
                /\ next_tmp' = next_tmp + 1
                /\ db_path' = next_tmp'
                /\ ~fs[db_path'].exists
                /\ fs'[db_path'].tables = {"papers", "search_history"}
                /\ \A n \in TmpNames \ {db_path'} : fs'[n] = fs[n]
          /\ HasDatabase'
          /\ ret_path' = db_path' ]_vars

C8_Witness ==
    /\ op = "ensure_database"
    /\ ret = "path"
    /\ ret_path = db_path
    /\ HasDatabase
    /\ fs[db_path].papers # {}

C27_BindsAfterSchema ==
    [][ op' = "create_temp_database" =>
          IF ret' = "raised"
          THEN sessionState' = sessionState
          ELSE /\ ret' = "path"
               /\ ret_path' = temp_path'
               /\ db_path' = temp_path'
               /\ db_initialized'
               /\ ~fs[db_path'].exists
               /\ fs'[db_path'].exists
               /\ {"papers", "search_history"} \subseteq fs'[db_path'].tables
               /\ HasDatabase' ]_vars

\* a create_temp_database whose schema initialization failed while a store
\* was bound: the new file exists without tables, the handle is the old one
C27_Witness ==
    /\ op = "create_temp_database"
    /\ ret = "raised"
    /\ temp_path # 0
    /\ fs[temp_path].exists
    /\ fs[temp_path].tables = {}
    /\ db_path # 0
    /\ db_path # temp_path
    /\ db_initialized
    /\ HasDatabase

\* C28: an upload_database that returns True binds the candidate it wrote
\* and leaves every file that existed, the store bound before among them,
\* as it was; in every step, a file that existed and exists no more was the
\* bound store and the step was clear_database.
C28_OnlyClearDeletesStore ==
    [][ /\ (op' = "upload_database" /\ ret' = "True") =>
              /\ db_path' = temp_path'
              /\ db_path' # db_path
              /\ db_initialized'
              /\ fs'[db_path'] = written'
              /\ \A n \in TmpNames : fs[n].exists => fs'[n] = fs[n]
        /\ \A n \in TmpNames :
              (fs[n].exists /\ ~fs'[n].exists) =>
                  (op' = "clear_database" /\ n = db_path) ]_vars

\* a second store was uploaded and bound; the first one is still on disk
C28_Witness ==
    /\ op = "upload_database"
    /\ ret = "True"
    /\ db_path = 2
    /\ fs[1].exists
    /\ "papers" \in fs[1].tables
    /\ fs[2].exists

\* C29: db_initialized is TRUE exactly when db_path is bound, and
\* constructing another LocalDataManager changes neither of the two.
C29_FlagFollowsPath ==
    /\ [](db_initialized <=> db_path # 0)
    /\ [][ op' = "LocalDataManager" => sessionState' = sessionState ]_vars

\* another LocalDataManager was constructed while a store was bound
C29_Witness ==
    /\ op = "LocalDataManager"
    /\ db_path # 0
    /\ db_initialized
    /\ HasDatabase

\* C25: add_search_to_history, clear_search_history and import_config change
\* no temporary file (so no store's search_history table) and none of the
\* session keys; LocalDataManager construction, create_temp_database,
\* upload_database, clear_database and ensure_database change neither the
\* in-memory search history nor the history file.
C25_HistoryLogsIndependent ==
    [][ /\ op' \in {"add_search_to_history", "clear_search_history", "import_config"} =>
              /\ fs' = fs
              /\ db_path' = db_path
              /\ db_initialized' = db_initialized
              /\ db_token' = db_token
        /\ op' \in {"LocalDataManager", "create_temp_database", "upload_database",
                    "clear_database", "ensure_database"} =>
              /\ search_history' = search_history
              /\ history_file' = history_file ]_vars

\* the manager's history was cleared while the bound store holds two rows
\* in its own search_history table
C25_Witness ==
    /\ op = "clear_search_history"
    /\ search_history = <<>>
    /\ history_file = HistoryJson(<<>>)
    /\ HasDatabase
    /\ "search_history" \in fs[db_path].tables
    /\ fs[db_path].searches = 2

-----------------------------------------------------------------------------
(* Text: a Python str is a sequence of one-character strings *)

\* ord(c) of the characters that occur in the rows and the queries
Ord(c) ==
    CASE c = "." -> 46
      [] c = "0" -> 48  [] c = "1" -> 49  [] c = "2" -> 50  [] c = "3" -> 51
      [] c = "4" -> 52  [] c = "5" -> 53  [] c = "6" -> 54  [] c = "7" -> 55
      [] c = "8" -> 56  [] c = "9" -> 57
      [] c = "A" -> 65  [] c = "B" -> 66  [] c = "J" -> 74  [] c = "K" -> 75
      [] c = "U" -> 85
      [] c = "a" -> 97  [] c = "b" -> 98  [] c = "k" -> 107 [] c = "n" -> 110
      [] c = "o" -> 111 [] c = "w" -> 119

\* s < t and s <= t of two str: lexicographic by code point
RECURSIVE StrLess(_, _)
StrLess(s, t) ==
    IF t = <<>> THEN FALSE
    ELSE IF s = <<>> THEN TRUE
    ELSE IF Ord(Head(s)) # Ord(Head(t)) THEN Ord(Head(s)) < Ord(Head(t))
    ELSE StrLess(Tail(s), Tail(t))

StrLe(s, t) == s = t \/ StrLess(s, t)

\* str.lower()
LowerChar(c) ==
    CASE c = "A" -> "a" [] c = "B" -> "b" [] c = "J" -> "j" [] c = "K" -> "k"
      [] c = "U" -> "u" [] OTHER -> c
lower(s) == [i \in 1..Len(s) |-> LowerChar(s[i])]

\* sub in text
LiteralIn(sub, text) ==
    \E i \in 0..(Len(text) - Len(sub)) :
        \A j \in 1..Len(sub) : text[i + j] = sub[j]

\* Series.str.contains(pat) with its default regex=True: re.search(pat, text).
\* Of the metacharacters only "." occurs in the queries; it matches any
\* character (the texts hold no newline).
str_contains(text, pat) ==
    \E i \in 0..(Len(text) - Len(pat)) :
        \A j \in 1..Len(pat) : pat[j] = "." \/ text[i + j] = pat[j]

\* str(n) of an int n >= 0
RECURSIVE str(_)
str(n) ==
    IF n < 10 THEN <<DigitChars[n + 1]>>
    ELSE Append(str(n \div 10), DigitChars[(n % 10) + 1])

\* y.isdigit()
isdigit(y) == y # <<>> /\ \A i \in 1..Len(y) : Ord(y[i]) \in 48..57

\* int(y) of a y with y.isdigit()
RECURSIVE int(_)
int(y) ==
    IF y = <<>> THEN 0
    ELSE 10 * int(SubSeq(y, 1, Len(y) - 1)) + (Ord(y[Len(y)]) - 48)

-----------------------------------------------------------------------------
(* The papers table as PaperDB reads it *)

\* A TEXT column that holds a JSON array: NULL or '' ("empty"), the text of a
\* JSON array ("json", with the array), or text json.loads rejects ("bad")
JsonText(list) == [kind |-> "json", value |-> list]
EmptyText == [kind |-> "empty", value |-> <<>>]
BadText == [kind |-> "bad", value |-> <<>>]

Unknown == <<"U", "n", "k", "n", "o", "w", "n">>
Y2020 == <<"2", "0", "2", "0">>
Y2021 == <<"2", "0", "2", "1">>

PaperRow(pmid, title, abstract, keywords, mesh_terms, pub_year, strategy) ==
    [pmid |-> pmid, title |-> title, abstract |-> abstract,
     authors |-> EmptyText, keywords |-> keywords, mesh_terms |-> mesh_terms,
     pub_year |-> pub_year, search_strategy |-> strategy, journal |-> <<"J">>,
     has_abstract |-> IF abstract = <<>> THEN 0 ELSE 1]

\* The rows a store is filled from: titles that differ only in case, a term
\* that is in the abstract only or in a keyword only, a keyword holding a
\* ".", years that are equal, missing and "Unknown", undecodable keywords
Catalogue ==
    { PaperRow("p1", <<"A", "b">>, <<>>, JsonText(<< <<"a">>, <<"b">> >>),
               JsonText(<<"m1", "m2">>), Y2020, "s1"),
      PaperRow("p2", <<"a", "b">>, <<"b", "a">>, EmptyText,
               JsonText(<<"m2">>), Y2020, "s2"),
      PaperRow("p3", <<"b">>, <<"b">>, JsonText(<< <<"a", ".">>, <<"B">> >>),
               EmptyText, Y2021, "s1"),
      PaperRow("p4", <<"b">>, <<"a", "a">>, JsonText(<< <<"b">>, <<"b">> >>),
               JsonText(<<"m2", "m1">>), Unknown, "s1"),
      PaperRow("p5", <<"B">>, <<>>, JsonText(<< <<"b">> >>),
               JsonText(<<"m3">>), <<>>, "s2"),
      PaperRow("p6", <<"a">>, <<"a">>, BadText, JsonText(<<"m1">>), Y2021, "s1") }

\* Sequences of at most n rows of S, without repetition (pmid is the key)
RECURSIVE SeqsUpTo(_, _)
SeqsUpTo(S, n) ==
    IF n = 0 THEN { <<>> }
    ELSE LET shorter == SeqsUpTo(S, n - 1)
             longest == { q \in shorter : Len(q) = n - 1 }
         IN  shorter \cup
             UNION { { Append(q, r) : r \in { x \in S : \A i \in 1..Len(q) : q[i] # x } } :
                     q \in longest }

\* lambda x: json.loads(x) if x else []
Decoded(x) == IF x.kind = "json" THEN x.value ELSE <<>>
Undecodable(x) == x.kind = "bad"

\* The value of a call: it returned value, or it raised
Returned(v) == [raised |-> FALSE, value |-> v]
Raised == [raised |-> TRUE, value |-> <<>>]

\* A slip in get_all_papers: the test of self.conn is missing, so that
\* read_sql_query is called on None and raises
get_all_papersWithoutConnTest(c, rows) ==
    IF ~c THEN Raised
    ELSE IF \E i \in 1..Len(rows) :
                \/ Undecodable(rows[i].authors)
                \/ Undecodable(rows[i].keywords)
                \/ Undecodable(rows[i].mesh_terms)
    THEN Raised
    ELSE Returned([i \in 1..Len(rows) |->
                      [rows[i] EXCEPT !.authors = Decoded(@),
                                      !.keywords = Decoded(@),
                                      !.mesh_terms = Decoded(@)]])

\* get_all_papers(): json.loads raising inside apply ends the call
get_all_papers(c, rows) ==
    IF ~c THEN Returned(<<>>)
    ELSE IF \E i \in 1..Len(rows) :
                \/ Undecodable(rows[i].authors)
                \/ Undecodable(rows[i].keywords)
                \/ Undecodable(rows[i].mesh_terms)
    THEN Raised
    ELSE Returned([i \in 1..Len(rows) |->
                      [rows[i] EXCEPT !.authors = Decoded(@),
                                      !.keywords = Decoded(@),
                                      !.mesh_terms = Decoded(@)]])

-----------------------------------------------------------------------------
(* PaperDB.get_statistics *)

\* {} : the dictionary without keys
EmptyDict == [k \in {} |-> 0]

\* SELECT COUNT ... WHERE column = value
CountWhere(rows, column, value) ==
    Cardinality({ i \in 1..Len(rows) : rows[i][column] = value })

\* A slip in the WHERE clause: only the empty year is left out
by_yearKeepsUnknown(rows) ==
    LET years == { rows[i].pub_year : i \in 1..Len(rows) } \ { <<>> }
    IN  [y \in years |-> CountWhere(rows, "pub_year", y)]

\* SELECT pub_year, COUNT ... WHERE pub_year != '' AND pub_year != 'Unknown'
\* GROUP BY pub_year, as a dict
by_year(rows) ==
    LET years == { rows[i].pub_year : i \in 1..Len(rows) } \ { <<>>, Unknown }
    IN  [y \in years |-> CountWhere(rows, "pub_year", y)]

\* SELECT search_strategy, COUNT ... GROUP BY search_strategy, as a dict
by_strategy(rows) ==
    LET strategies == { rows[i].search_strategy : i \in 1..Len(rows) }
    IN  [t \in strategies |-> CountWhere(rows, "search_strategy", t)]

\* get_statistics(): {} without a connection, else the five statistics
get_statistics(c, rows) ==
    IF ~c THEN Returned(EmptyDict)
    ELSE Returned([total_papers    |-> Len(rows),
                   by_year         |-> by_year(rows),
                   by_strategy     |-> by_strategy(rows),
                   with_abstract   |-> CountWhere(rows, "has_abstract", 1),
                   unique_journals |->
                       Cardinality({ rows[i].journal : i \in 1..Len(rows) } \ { <<>> })])

-----------------------------------------------------------------------------
(* PaperDB.search_papers *)

\* The entry of the strategy selectbox that stands for every strategy (in
\* the source a two-character Chinese word)
AllStrategies == "ALL"

\* An omitted year_range
NoYears == [given |-> FALSE, lo |-> 0, hi |-> 0]
Years(lo, hi) == [given |-> TRUE, lo |-> lo, hi |-> hi]

\* The mask of the keyword filter for one row
KeywordMatch(row, keyword_lower) ==
    \/ str_contains(lower(row.title), keyword_lower)
    \/ str_contains(lower(row.abstract), keyword_lower)
    \/ \E i \in 1..Len(row.keywords) : LiteralIn(keyword_lower, lower(row.keywords[i]))

\* A slip in the comparison: the upper bound is exclusive
YearMatchExclusive(row, year_range) ==
    /\ StrLe(str(year_range.lo), row.pub_year)
    /\ StrLess(row.pub_year, str(year_range.hi))

\* The mask of the year filter for one row: str compared with str
YearMatch(row, year_range) ==
    /\ StrLe(str(year_range.lo), row.pub_year)
    /\ StrLe(row.pub_year, str(year_range.hi))

\* A slip in the strategy test: the sentinel is compared like a strategy
StrategySuppliedNoSentinel(strategy) == strategy # ""

\* if strategy and strategy != the sentinel
StrategySupplied(strategy) == strategy # "" /\ strategy # AllStrategies

\* The three filters applied one after the other to the frame df
filter_frame(df, keyword, strategy, year_range) ==
    LET ByKeyword(r)  == KeywordMatch(r, lower(keyword))
        ByStrategy(r) == r.search_strategy = strategy
        ByYear(r)     == YearMatch(r, year_range)
        df1 == IF keyword # <<>> THEN SelectSeq(df, ByKeyword) ELSE df
        df2 == IF StrategySupplied(strategy) THEN SelectSeq(df1, ByStrategy) ELSE df1
        df3 == IF year_range.given THEN SelectSeq(df2, ByYear) ELSE df2
    IN  df3

search_papers(c, rows, keyword, strategy, year_range) ==
    LET all == get_all_papers(c, rows)
    IN  IF all.raised THEN Raised
        ELSE IF all.value = <<>> THEN Returned(<<>>)
        ELSE Returned(filter_frame(all.value, keyword, strategy, year_range))

-----------------------------------------------------------------------------
(* PaperDB.get_top_keywords / get_top_mesh_terms *)

\* all_keywords after the extend loop over the column
RECURSIVE Flatten(_)
Flatten(lists) ==
    IF lists = <<>> THEN <<>> ELSE Head(lists) \o Flatten(Tail(lists))

Occurrences(terms, t) == Cardinality({ i \in 1..Len(terms) : terms[i] = t })

\* The keys of Counter(terms), in insertion order
RECURSIVE CounterKeys(_)
CounterKeys(terms) ==
    IF terms = <<>> THEN <<>>
    ELSE LET before == CounterKeys(SubSeq(terms, 1, Len(terms) - 1))
             last   == terms[Len(terms)]
         IN  IF \E i \in 1..Len(before) : before[i] = last
             THEN before ELSE Append(before, last)

\* A slip in the order: a pair goes in front of the pairs with an equal count
InsertByCountBeforeEqual(sorted, pair) ==
    LET k == Cardinality({ i \in 1..Len(sorted) : sorted[i][2] > pair[2] })
    IN  SubSeq(sorted, 1, k) \o <<pair>> \o SubSeq(sorted, k + 1, Len(sorted))

\* One pair put into pairs sorted by descending count, behind the pairs
\* with an equal count
InsertByCount(sorted, pair) ==
    LET k == Cardinality({ i \in 1..Len(sorted) : sorted[i][2] >= pair[2] })
    IN  SubSeq(sorted, 1, k) \o <<pair>> \o SubSeq(sorted, k + 1, Len(sorted))

RECURSIVE SortedByCount(_)
SortedByCount(pairs) ==
    IF pairs = <<>> THEN <<>>
    ELSE InsertByCount(SortedByCount(SubSeq(pairs, 1, Len(pairs) - 1)),
                       pairs[Len(pairs)])

\* Counter(terms).most_common(n): the n largest by count, equal counts in
\* insertion order
most_common(terms, n) ==
    LET keys  == CounterKeys(terms)
        pairs == [i \in 1..Len(keys) |-> <<keys[i], Occurrences(terms, keys[i])>>]
    IN  Take(SortedByCount(pairs), IF n < 0 THEN 0 ELSE n)

get_top_keywords(c, rows, n) ==
    LET all == get_all_papers(c, rows)
    IN  IF all.raised THEN Raised
        ELSE IF all.value = <<>> THEN Returned(<<>>)
        ELSE Returned(most_common(
                 Flatten([i \in 1..Len(all.value) |-> all.value[i].keywords]), n))

get_top_mesh_terms(c, rows, n) ==
    LET all == get_all_papers(c, rows)
    IN  IF all.raised THEN Raised
        ELSE IF all.value = <<>> THEN Returned(<<>>)
        ELSE Returned(most_common(
                 Flatten([i \in 1..Len(all.value) |-> all.value[i].mesh_terms]), n))

-----------------------------------------------------------------------------
(* page_browser: sorting and paging the rows found *)

\* The entries of the sort selectbox: the column and the direction
SortOptions ==
    { [by |-> "pub_year", ascending |-> FALSE], [by |-> "pub_year", ascending |-> TRUE],
      [by |-> "title", ascending |-> TRUE], [by |-> "journal", ascending |-> TRUE] }

\* The entries of the page-size selectbox
PerPageOptions == {10, 20, 50, 100}

RowOrders(n) == { f \in [1..n -> 1..n] : \A i, j \in 1..n : i # j => f[i] # f[j] }

KeyOrdered(df, by, ascending) ==
    \A i \in 1..(Len(df) - 1) :
        IF ascending THEN StrLe(df[i][by], df[i + 1][by])
        ELSE StrLe(df[i + 1][by], df[i][by])

\* df.sort_values(by, ascending=...) with the default kind='quicksort', which
\* is not a stable sort: every arrangement of the rows that is ordered by the
\* key can come out
sort_values(df, by, ascending) ==
    { out \in { [i \in 1..Len(df) |-> df[f[i]]] : f \in RowOrders(Len(df)) } :
        KeyOrdered(out, by, ascending) }

\* A slip in the page count: the rows are not decremented before the division
total_pagesOneTooMany(count, per_page) == count \div per_page + 1

\* (len(df) - 1) // per_page + 1
total_pages(count, per_page) == (count - 1) \div per_page + 1

\* df.iloc[start_idx:end_idx]
page_rows(df, per_page, page) ==
    LET start_idx == (page - 1) * per_page
        end_idx   == start_idx + per_page
    IN  SubSeq(df, start_idx + 1, Min(end_idx, Len(df)))

\* What the page shows when it returns early: no statistics ("empty_store")
\* or no row found ("no_match")
NoView(shown) ==
    [shown |-> shown, filtered |-> <<>>, sorted |-> <<>>, by |-> "",
     per_page |-> 0, total_pages |-> 0, pages |-> {}, page |-> 0, page_df |-> <<>>]

\* The page shown for the rows found (filtered), sorted by the column by:
\* the number input admits the pages 1..total_pages
PageView(filtered, sorted, by, per_page, page) ==
    [shown |-> "page", filtered |-> filtered, sorted |-> sorted, by |-> by,
     per_page |-> per_page,
     total_pages |-> total_pages(Len(sorted), per_page),
     pages |-> 1..total_pages(Len(sorted), per_page),
     page |-> page, page_df |-> page_rows(sorted, per_page, page)]

\* The page numbers the number input takes for the rows found (it is not
\* shown when nothing was found: the argument is then 1)
PageNumbers(df, per_page) ==
    IF Len(df) = 0 THEN {1} ELSE 1..total_pages(Len(df), per_page)

\* page_browser from the result statistic on: nothing found ends the page,
\* else the rows are sorted and one page of them is shown
show_results(df, sorted, by, per_page, page) ==
    IF Len(df) = 0 THEN NoView("no_match")
    ELSE PageView(df, sorted, by, per_page, page)

\* The values the year slider can be set to: None without a digit year,
\* else a range within min(years)..max(years)
YearSliderValues(stats) ==
    LET years == { int(y) : y \in { k \in DOMAIN stats.by_year : isdigit(k) } }
        lowest  == CHOOSE y \in years : \A z \in years : y <= z
        highest == CHOOSE y \in years : \A z \in years : z <= y
    IN  IF years = {} THEN { NoYears }
        ELSE { y \in { Years(lo, hi) : lo \in lowest..highest, hi \in lowest..highest } :
                 y.lo <= y.hi }

-----------------------------------------------------------------------------
(* Operations of PaperDB and the browser page *)

Keywords ==
    { <<>>, <<"a">>, <<"A", "B">>, <<"a", ".">>, <<"b", "a">> }
StrategyArgs == { "", AllStrategies, "s1", "s2" }
YearRanges ==
    { NoYears, Years(2020, 2020), Years(2020, 2021), Years(2021, 2021),
      Years(1000, 9999) }
TopNs == { 0, 1, 2, 20 }

NoCall == [keyword |-> <<>>, strategy |-> "", year_range |-> NoYears, n |-> 0,
           count |-> 0, per_page |-> 0]

\* Every call reads conn and the table and writes neither, so what a call
\* returns does not depend on the calls before it: a behaviour makes one call
\* on the PaperDB it opened.
FreshPaperDb == op = "PaperDB"

\* What every PaperDB call leaves alone
PaperDbFrame ==
    /\ UNCHANGED <<conn, papers_table, arg>>
    /\ UNCHANGED <<cmVars, ldmVars, peerVars>>

GetAllPapers ==
    /\ FreshPaperDb
    /\ op' = "get_all_papers"
    /\ call' = NoCall
    /\ result' = get_all_papers(conn, papers_table)
    /\ ret' = IF result'.raised THEN "raised" ELSE "value"
    /\ PaperDbFrame

GetStatistics ==
    /\ FreshPaperDb
    /\ op' = "get_statistics"
    /\ call' = NoCall
    /\ result' = get_statistics(conn, papers_table)
    /\ ret' = "value"
    /\ PaperDbFrame

SearchPapers ==
    /\ FreshPaperDb
    /\ \E k \in Keywords, t \in StrategyArgs, y \in YearRanges :
           /\ op' = "search_papers"
           /\ call' = [NoCall EXCEPT !.keyword = k, !.strategy = t, !.year_range = y]
           /\ result' = search_papers(conn, papers_table, k, t, y)
           /\ ret' = IF result'.raised THEN "raised" ELSE "value"
           /\ PaperDbFrame

GetTopKeywords ==
    /\ FreshPaperDb
    /\ \E n \in TopNs :
           /\ op' = "get_top_keywords"
           /\ call' = [NoCall EXCEPT !.n = n]
           /\ result' = get_top_keywords(conn, papers_table, n)
           /\ ret' = IF result'.raised THEN "raised" ELSE "value"
           /\ PaperDbFrame

GetTopMeshTerms ==
    /\ FreshPaperDb
    /\ \E n \in TopNs :
           /\ op' = "get_top_mesh_terms"
           /\ call' = [NoCall EXCEPT !.n = n]
           /\ result' = get_top_mesh_terms(conn, papers_table, n)
           /\ ret' = IF result'.raised THEN "raised" ELSE "value"
           /\ PaperDbFrame

\* page_browser(): the statistics fill the widgets, the widgets' values go
\* to search_papers, the rows found are sorted and paged
page_browser(keyword, selected_strategy, year_range, per_page, sort_by, page) ==
    LET stats == get_statistics(conn, papers_table).value
        found == search_papers(conn, papers_table, keyword,
                               IF selected_strategy # AllStrategies
                               THEN selected_strategy ELSE "",
                               year_range)
    IN  /\ FreshPaperDb
        /\ op' = "page_browser"
        /\ call' = [NoCall EXCEPT !.keyword = keyword, !.strategy = selected_strategy,
                                  !.year_range = year_range, !.per_page = per_page]
        /\ IF stats = EmptyDict
           THEN /\ result' = Returned(NoView("empty_store"))
                /\ ret' = "value"
           ELSE /\ selected_strategy \in {AllStrategies} \cup DOMAIN stats.by_strategy
                /\ year_range \in YearSliderValues(stats)
                /\ IF found.raised
                   THEN /\ result' = Raised
                        /\ ret' = "raised"
                   ELSE /\ \E sorted \in sort_values(found.value, sort_by.by,
                                                     sort_by.ascending) :
                              /\ page \in PageNumbers(found.value, per_page)
                              /\ result' = Returned(show_results(found.value, sorted,
                                                                 sort_by.by, per_page, page))
                        /\ ret' = "value"
        /\ PaperDbFrame

-----------------------------------------------------------------------------
(* SpecPapers: a PaperDB opened on a store, and the browser page *)

\* The configuration manager and the data manager are idle
OthersIdle ==
    /\ config_file = AbsentConfigFile
    /\ history_file = AbsentHistoryFile
    /\ secrets = NoSecrets
    /\ here_env = AbsentEnv
    /\ root_env = AbsentEnv
    /\ clock = 0
    /\ faults = 0
    /\ pubmed_config = DefaultConfig
    /\ search_history = <<>>
    /\ arg = NoImport
    /\ LdmIdle
    /\ PeerIdle

\* PaperDB(db_path): no connection when the file does not exist, else a
\* connection to a store whose papers table holds up to MaxPapers rows
InitPapers ==
    /\ OthersIdle
    /\ conn \in BOOLEAN
    /\ papers_table \in (IF conn THEN SeqsUpTo(Catalogue, MaxPapers) ELSE { <<>> })
    /\ op = "PaperDB"
    /\ ret = "None"
    /\ call = NoCall
    /\ result = Returned(<<>>)

PageBrowser ==
    /\ FreshPaperDb
    /\ \E k \in { <<>>, <<"b">> }, t \in StrategyArgs \ {""},
          y \in { NoYears, Years(2020, 2020), Years(2020, 2021), Years(2021, 2021) },
          pp \in PerPageOptions, sb \in SortOptions, pg \in 1..MaxPapers :
           page_browser(k, t, y, pp, sb, pg)

NextPapers ==
    \/ GetAllPapers
    \/ GetStatistics
    \/ SearchPapers
    \/ GetTopKeywords
    \/ GetTopMeshTerms
    \/ PageBrowser

SpecPapers == InitPapers /\ [][NextPapers]_vars

-----------------------------------------------------------------------------
(* SpecPage: the paging of page_browser over frames of up to MaxRows rows *)

\* A frame of count rows, each row shown by its position in the frame
Frame(count) == [i \in 1..count |-> i]

InitPage ==
    /\ OthersIdle
    /\ conn = TRUE
    /\ papers_table = <<>>
    /\ op = "PaperDB"
    /\ ret = "None"
    /\ call \in { [NoCall EXCEPT !.count = c, !.per_page = pp] :
                    c \in 0..MaxRows, pp \in PerPageOptions }
    /\ result = Returned(<<>>)

\* The end of page_browser on the frame search_papers and sort_values left
ShowResults ==
    /\ FreshPaperDb
    /\ \E page \in PageNumbers(Frame(call.count), call.per_page) :
           /\ op' = "show_results"
           /\ result' = Returned(show_results(Frame(call.count), Frame(call.count),
                                              "", call.per_page, page))
           /\ ret' = "value"
           /\ UNCHANGED call
           /\ PaperDbFrame

SpecPage == InitPage /\ [][ShowResults]_vars

-----------------------------------------------------------------------------
(* Properties of PaperDB *)

\* C11: get_all_papers on a connected store returns every stored record, in
\* order, also when a record's authors, keywords or mesh_terms cannot be
\* decoded; such a field is returned as the empty sequence.
C11_UndecodableFieldsDegrade ==
    (op = "get_all_papers" /\ conn) =>
        /\ ~result.raised
        /\ Len(result.value) = Len(papers_table)
        /\ \A i \in 1..Len(papers_table) :
               /\ result.value[i].pmid = papers_table[i].pmid
               /\ Undecodable(papers_table[i].authors) => result.value[i].authors = <<>>
               /\ Undecodable(papers_table[i].keywords) => result.value[i].keywords = <<>>
               /\ Undecodable(papers_table[i].mesh_terms) =>
                      result.value[i].mesh_terms = <<>>

\* C13: every record search_papers returns for a keyword holds the
\* lower-cased keyword as a literal substring of its lower-cased title, or
\* abstract, or one of its keywords; with the keyword as the only filter the
\* records returned are exactly the records that do.
C13_KeywordIsLiteralSubstring ==
    (op = "search_papers" /\ ~result.raised) =>
        LET kl  == lower(call.keyword)
            all == get_all_papers(conn, papers_table).value
            Holds(r) == \/ LiteralIn(kl, lower(r.title))
                        \/ LiteralIn(kl, lower(r.abstract))
                        \/ \E i \in 1..Len(r.keywords) : LiteralIn(kl, lower(r.keywords[i]))
        IN  /\ \A i \in 1..Len(result.value) : Holds(result.value[i])
            /\ (call.strategy \in {"", AllStrategies} /\ ~call.year_range.given) =>
                   \A i \in 1..Len(all) :
                       Holds(all[i]) <=> \E j \in 1..Len(result.value) :
                                             result.value[j] = all[i]

\* C14: no record search_papers returns for a year range (lo, hi) has an
\* empty or "Unknown" pub_year, and each has lo <= pub_year <= hi as
\* numbers; with the year range as the only filter the records returned are
\* exactly the records whose year is within the bounds, bounds included.
C14_YearRangeInclusive ==
    (op = "search_papers" /\ ~result.raised /\ call.year_range.given) =>
        LET lo  == call.year_range.lo
            hi  == call.year_range.hi
            all == get_all_papers(conn, papers_table).value
            Within(r) == /\ isdigit(r.pub_year)
                         /\ lo <= int(r.pub_year)
                         /\ int(r.pub_year) <= hi
        IN  /\ \A i \in 1..Len(result.value) :
                   /\ result.value[i].pub_year \notin { <<>>, Unknown }
                   /\ Within(result.value[i])
            /\ (call.keyword = <<>> /\ call.strategy \in {"", AllStrategies}) =>
                   \A i \in 1..Len(all) :
                       Within(all[i]) <=> \E j \in 1..Len(result.value) :
                                              result.value[j] = all[i]

C14_Witness ==
    /\ op = "search_papers"
    /\ call.year_range = Years(2021, 2021)
    /\ call.keyword = <<>>
    /\ call.strategy = ""
    /\ Len(papers_table) = 3
    /\ \E i \in 1..3 : papers_table[i].pub_year = Unknown
    /\ \E i \in 1..3 : papers_table[i].pub_year = <<>>
    /\ Len(result.value) = 1
    /\ result.value[1].pub_year = Y2021

\* C15: search_papers returns, in the order of the source, the records that
\* pass every filter supplied: the keyword filter if the keyword is not
\* empty, equality of search_strategy if the strategy is neither empty nor
\* the sentinel, the year filter if a range is given.  With no filter
\* supplied every record is returned.
C15_FiltersComposeInOrder ==
    (op = "search_papers" /\ ~result.raised) =>
        LET all == get_all_papers(conn, papers_table).value
            Keep(r) ==
                /\ call.keyword # <<>> => KeywordMatch(r, lower(call.keyword))
                /\ call.strategy \notin {"", AllStrategies} =>
                       r.search_strategy = call.strategy
                /\ call.year_range.given => YearMatch(r, call.year_range)
        IN  /\ result.value = SelectSeq(all, Keep)
            /\ ( /\ call.keyword = <<>>
                 /\ call.strategy \in {"", AllStrategies}
                 /\ ~call.year_range.given ) => result.value = all

C15_Witness ==
    /\ op = "search_papers"
    /\ call.keyword = <<"a">>
    /\ call.strategy = "s1"
    /\ call.year_range = Years(2020, 2021)
    /\ Len(papers_table) = 3
    /\ Len(result.value) = 2
    /\ result.value[1].pmid = "p3"
    /\ result.value[2].pmid = "p1"

\* C16: in the rows page_browser shows, two rows with equal sort keys are
\* in the order they had among the rows found.
C16_SortIsStable ==
    (op = "page_browser" /\ ~result.raised /\ result.value.shown = "page") =>
        LET v == result.value
            Found(r) == CHOOSE i \in 1..Len(v.filtered) : v.filtered[i] = r
        IN  \A i, j \in 1..Len(v.sorted) :
                (i < j /\ v.sorted[i][v.by] = v.sorted[j][v.by]) =>
                    Found(v.sorted[i]) < Found(v.sorted[j])

\* C17 as stated: for every count >= 0 of rows found and every page size,
\* the page shows total_pages = max(1, ceil(count / per_page)), admits the
\* page numbers 1..total_pages, and page p holds the rows at the positions
\* (p-1)*per_page .. min(p*per_page, count) - 1.
C17_PagesForEveryCount ==
    op = "show_results" =>
        LET v     == result.value
            count == call.count
            pp    == call.per_page
            ceil  == CHOOSE k \in 0..count : (k - 1) * pp < count /\ count <= k * pp
        IN  /\ v.shown = "page"
            /\ v.total_pages = IF ceil < 1 THEN 1 ELSE ceil
            /\ v.pages = 1..v.total_pages
            /\ v.page \in v.pages
            /\ Len(v.page_df) = Min(v.page * pp, count) - (v.page - 1) * pp
            /\ \A k \in 1..Len(v.page_df) :
                   v.page_df[k] = Frame(count)[(v.page - 1) * pp + k]

\* C17 as amended: for every count >= 1 the page shows total_pages =
\* ceil(count / per_page), admits the page numbers 1..total_pages, and page
\* p holds the rows at the positions (p-1)*per_page .. min(p*per_page,
\* count) - 1; for count = 0 the page ends before any paging.
C17_PagesForRowsFound ==
    op = "show_results" =>
        LET v     == result.value
            count == call.count
            pp    == call.per_page
            ceil  == CHOOSE k \in 0..count : (k - 1) * pp < count /\ count <= k * pp
        IN  IF count = 0
            THEN v = NoView("no_match")
            ELSE /\ v.shown = "page"
                 /\ v.total_pages = ceil
                 /\ v.total_pages >= 1
                 /\ v.pages = 1..v.total_pages
                 /\ v.page \in v.pages
                 /\ Len(v.page_df) = Min(v.page * pp, count) - (v.page - 1) * pp
                 /\ \A k \in 1..Len(v.page_df) :
                        v.page_df[k] = Frame(count)[(v.page - 1) * pp + k]

C17_Witness ==
    /\ op = "show_results"
    /\ call.count = 45
    /\ call.per_page = 20
    /\ result.value.total_pages = 3
    /\ result.value.page = 3
    /\ Len(result.value.page_df) = 5
    /\ result.value.page_df[1] = 41

\* C18: get_statistics on a connected store gives total_papers = the number
\* of records, and by_year maps exactly the years other than "" and
\* "Unknown" to the number of records of that year.
C18_StatisticsCountYears ==
    (op = "get_statistics" /\ conn) =>
        LET v == result.value
            n == Len(papers_table)
        IN  /\ ~result.raised
            /\ v.total_papers = n
            /\ DOMAIN v.by_year =
                   { papers_table[i].pub_year : i \in 1..n } \ { <<>>, Unknown }
            /\ \A y \in DOMAIN v.by_year :
                   v.by_year[y] = Cardinality({ i \in 1..n : papers_table[i].pub_year = y })

C18_Witness ==
    /\ op = "get_statistics"
    /\ Len(papers_table) = 3
    /\ \E i \in 1..3 : papers_table[i].pub_year = Unknown
    /\ result.value.total_papers = 3
    /\ DOMAIN result.value.by_year = { Y2020 }
    /\ result.value.by_year[Y2020] = 2

\* C19: get_top_keywords(n) and get_top_mesh_terms(n), when they return,
\* return at most n pairs of distinct terms, each with the number of its
\* occurrences in the flattened column, by descending count and, for equal
\* counts, by first occurrence; the counts returned sum to at most the
\* number of occurrences.
C19_TopTermsRanked ==
    (op \in {"get_top_keywords", "get_top_mesh_terms"} /\ ~result.raised) =>
        LET pairs == result.value
            terms == Flatten([i \in 1..Len(papers_table) |->
                         IF op = "get_top_keywords"
                         THEN Decoded(papers_table[i].keywords)
                         ELSE Decoded(papers_table[i].mesh_terms)])
            First(t) == CHOOSE i \in 1..Len(terms) :
                            terms[i] = t /\ \A j \in 1..(i - 1) : terms[j] # t
        IN  /\ Len(pairs) <= call.n
            /\ \A i \in 1..Len(pairs) :
                   /\ pairs[i][2] = Occurrences(terms, pairs[i][1])
                   /\ pairs[i][2] >= 1
            /\ \A i, j \in 1..Len(pairs) :
                   i < j => \/ pairs[i][2] > pairs[j][2]
                            \/ /\ pairs[i][2] = pairs[j][2]
                               /\ First(pairs[i][1]) < First(pairs[j][1])
            /\ Cardinality({ ik \in (1..Len(pairs)) \X (1..Len(terms)) :
                               ik[2] <= pairs[ik[1]][2] }) <= Len(terms)

C19_Witness ==
    /\ op = "get_top_keywords"
    /\ call.n = 2
    /\ Len(papers_table) = 3
    /\ result.value = << << <<"b">>, 3 >>, << <<"a">>, 1 >> >>

\* C20: with no connection or an empty papers table, get_statistics,
\* get_top_keywords, get_top_mesh_terms and search_papers do not raise:
\* get_statistics gives total_papers 0 and empty count maps (with no
\* connection, the mapping without keys), the others the empty sequence.
C20_EmptyStoreGivesEmptyResults ==
    ( /\ papers_table = <<>>
      /\ op \in {"get_statistics", "get_top_keywords", "get_top_mesh_terms",
                 "search_papers"} ) =>
        /\ ~result.raised
        /\ op # "get_statistics" => result.value = <<>>
        /\ (op = "get_statistics" /\ ~conn) => result.value = EmptyDict
        /\ (op = "get_statistics" /\ conn) =>
               /\ result.value.total_papers = 0
               /\ result.value.by_year = EmptyDict
               /\ result.value.by_strategy = EmptyDict
               /\ result.value.with_abstract = 0
               /\ result.value.unique_journals = 0

C20_Witness ==
    /\ op = "get_statistics"
    /\ conn
    /\ papers_table = <<>>
    /\ result.value.total_papers = 0
    /\ result.value.by_year = EmptyDict

====
